---- MODULE Spec2Model ----
(***************************************************************************)
(* Model of the thread pool of threadpool.cpp / threadpool.h.              *)
(*                                                                         *)
(* Threads of the program:                                                 *)
(*   - the owner of the pool: setters, start(), ~ThreadPool();             *)
(*   - submitters: one submitTask() call per task, later get() calls on    *)
(*     the returned Result and the destruction of that Result;             *)
(*   - the workers running ThreadPool::threadFunc.                         *)
(*                                                                         *)
(* Every region executed with taskQueMtx_ held is one action (the mutex    *)
(* makes it atomic); code outside the mutex (isPoolRunning_ = false in     *)
(* the destructor, Task::exec with the bookkeeping after it) is an         *)
(* action of its own.  A condition_variable is modelled by the set of      *)
(* threads blocked on it; notify_all moves them to a woken position from   *)
(* which they must take the mutex again.  A worker is "ready" when its     *)
(* next step is to take taskQueMtx_ and test the queue: at the top of      *)
(* for(;;) and after a wait that returned without time-out.                *)
(*                                                                         *)
(* Client protocol (threadpool.h example, example/main.cpp): the owner     *)
(* configures, calls start(n) with n >= 1 once, tasks are submitted after  *)
(* start returned, and the pool is destroyed when no thread is inside      *)
(* submitTask.                                                             *)
(*                                                                         *)
(* Time: lastTime/now of threadFunc are abstracted to the boolean          *)
(* expired[w] = (now - lastTime >= THREAD_MAX_IDLE_TIME as last computed), *)
(* which can only turn true while the worker is idle.                      *)
(*                                                                         *)
(* All counters stay far below 2^31 within the bounds, no operation of     *)
(* the code under test wraps.                                              *)
(***************************************************************************)
EXTENDS Integers, Sequences, FiniteSets, TLC

\* ---- bounds of the model ----
NTasks == 3            \* number of submitTask calls
MaxInit == 2           \* start(n) is called with n in 1..MaxInit
MaxCap == 1            \* setTaskQueMaxThreshold(n) with n in 1..MaxCap
MaxThr == 1            \* setThreadSizeThreshold(n) with n in 1..MaxThr
MaxPriorIds == 1       \* Thread objects created by earlier pools of the process
MaxGets == 2           \* number of get() calls on one Result
MaxObserved == 1       \* number of Results the client calls get on or destroys
                       \* before the task has run; it keeps the others untouched

\* ---- program constants ----
TASK_MAX_THRESHOLD == 1024
THREAD_MAX_THRESHOLD == 100

MODE_FIXED == "MODE_FIXED"
MODE_CACHED == "MODE_CACHED"
PoolMode == {MODE_FIXED, MODE_CACHED}

Tasks == 1..NTasks
Ids == 0..(MaxPriorIds + MaxInit + NTasks - 1)

\* value produced by run() of task t, the empty Any, and Any("") of an invalid get
RunVal(t) == 100 + t
EmptyAny == 0
StrAny == -1

VARIABLES
    ownerPc,               \* position of the owner thread
    startI,                \* loop variable i of the second loop of start()
    crashed,               \* the process has terminated abnormally
    poolMode_, taskQueMaxThreshold_, threadSizeThreshold_,
    initThreadSize_, curThreadSize_, idleThreadSize_, taskSize_,
    isPoolRunning_, taskQue_, threads_, generatedId_,
    wpc, wtask, expired,   \* workers: position, task held, idle time reached
    subPc,                 \* submitTask call of each task
    handle, isValid_, resLimit_, any_,   \* the Result of each task
    getPc, getCalls, got,  \* get() calls on each Result
    setValCalls,           \* calls of result_->setVal made by Task::exec
    threw,                 \* run() of the task has thrown
    acceptOrder, dequeueOrder   \* tasks in order of emplace / of front+pop

cfgVars == <<poolMode_, taskQueMaxThreshold_, threadSizeThreshold_>>
ownerVars == <<ownerPc, startI>>
cntVars == <<initThreadSize_, curThreadSize_, idleThreadSize_>>
queVars == <<taskSize_, taskQue_>>
regVars == <<threads_, generatedId_>>
wkVars == <<wpc, wtask, expired>>
resVars == <<handle, isValid_, resLimit_, any_>>
getVars == <<getPc, getCalls, got>>
logVars == <<acceptOrder, dequeueOrder>>

vars == <<ownerVars, crashed, cfgVars, cntVars, queVars, isPoolRunning_, regVars,
          wkVars, subPc, resVars, getVars, setValCalls, threw, logVars>>

\* ---- ThreadPool::ThreadPool ----
Init ==
    /\ ownerPc = "config"
    /\ startI = 0
    /\ crashed = FALSE
    /\ poolMode_ = MODE_FIXED
    /\ taskQueMaxThreshold_ = TASK_MAX_THRESHOLD
    /\ threadSizeThreshold_ = THREAD_MAX_THRESHOLD
    /\ initThreadSize_ = 4
    /\ curThreadSize_ = 0
    /\ idleThreadSize_ = 0
    /\ taskSize_ = 0
    /\ isPoolRunning_ = FALSE
    /\ taskQue_ = <<>>
    /\ threads_ = <<>>
    /\ generatedId_ \in 0..MaxPriorIds
    /\ wpc = [w \in Ids |-> "none"]
    /\ wtask = [w \in Ids |-> 0]
    /\ expired = [w \in Ids |-> FALSE]
    /\ subPc = [t \in Tasks |-> "new"]
    /\ handle = [t \in Tasks |-> "none"]
    /\ isValid_ = [t \in Tasks |-> FALSE]
    /\ resLimit_ = [t \in Tasks |-> 0]
    /\ any_ = [t \in Tasks |-> EmptyAny]
    /\ getPc = [t \in Tasks |-> "idle"]
    /\ getCalls = [t \in Tasks |-> 0]
    /\ got = [t \in Tasks |-> EmptyAny]
    /\ setValCalls = [t \in Tasks |-> 0]
    /\ threw = [t \in Tasks |-> FALSE]
    /\ acceptOrder = <<>>
    /\ dequeueOrder = <<>>

\* ---- helpers ----
\* ThreadPool::checkRunningState
checkRunningState == isPoolRunning_

\* threads_ with key k mapped to v (emplace / operator[] insertion)
RegPut(reg, k, v) == [x \in (DOMAIN reg) \cup {k} |-> IF x = k THEN v ELSE reg[x]]

\* threads_.erase(k)
RegErase(reg, k) == [x \in (DOMAIN reg) \ {k} |-> reg[x]]

\* notEmpty_.notify_all(): every worker blocked on notEmpty_ returns from its wait
NotifyNotEmpty(pc) == [w \in Ids |-> IF pc[w] = "wait" THEN "ready" ELSE pc[w]]

\* ---- setters ----
\* variant of setMode: the running state is not tested
setModeUnchecked(mode) ==
    /\ ~crashed
    /\ ownerPc \in {"config", "started"}
    /\ poolMode_' = mode
    /\ UNCHANGED <<ownerPc, startI, crashed, taskQueMaxThreshold_, threadSizeThreshold_,
                   cntVars, queVars, isPoolRunning_, regVars, wkVars, subPc, resVars,
                   getVars, setValCalls, threw, logVars>>

setMode(mode) ==
    /\ ~crashed
    /\ ownerPc \in {"config", "started"}
    /\ poolMode_' = IF checkRunningState THEN poolMode_ ELSE mode
    /\ UNCHANGED <<ownerPc, startI, crashed, taskQueMaxThreshold_, threadSizeThreshold_,
                   cntVars, queVars, isPoolRunning_, regVars, wkVars, subPc, resVars,
                   getVars, setValCalls, threw, logVars>>

setTaskQueMaxThreshold(threshold) ==
    /\ ~crashed
    /\ ownerPc \in {"config", "started"}
    /\ taskQueMaxThreshold_' = IF checkRunningState THEN taskQueMaxThreshold_ ELSE threshold
    /\ UNCHANGED <<ownerPc, startI, crashed, poolMode_, threadSizeThreshold_,
                   cntVars, queVars, isPoolRunning_, regVars, wkVars, subPc, resVars,
                   getVars, setValCalls, threw, logVars>>

setThreadSizeThreshold(threshold) ==
    /\ ~crashed
    /\ ownerPc \in {"config", "started"}
    /\ threadSizeThreshold_' =
          IF checkRunningState THEN threadSizeThreshold_
          ELSE IF poolMode_ = MODE_CACHED THEN threshold ELSE threadSizeThreshold_
    /\ UNCHANGED <<ownerPc, startI, crashed, poolMode_, taskQueMaxThreshold_,
                   cntVars, queVars, isPoolRunning_, regVars, wkVars, subPc, resVars,
                   getVars, setValCalls, threw, logVars>>

\* ---- ThreadPool::start ----
\* Thread objects created by the first loop of start(n): ids generatedId_ .. generatedId_+n-1
RECURSIVE CreateThreads(_, _, _)
CreateThreads(reg, id, n) ==
    IF n = 0 THEN reg ELSE CreateThreads(RegPut(reg, id, "Thread"), id + 1, n - 1)

\* lines 121-134: flag, counters and the loop creating the Thread objects
startBegin(initThreadSize) ==
    /\ ~crashed
    /\ ownerPc = "config"
    /\ isPoolRunning_' = TRUE
    /\ initThreadSize_' = initThreadSize
    /\ curThreadSize_' = initThreadSize
    /\ threads_' = CreateThreads(threads_, generatedId_, initThreadSize)
    /\ generatedId_' = generatedId_ + initThreadSize
    /\ ownerPc' = "starting"
    /\ startI' = 0
    /\ UNCHANGED <<crashed, cfgVars, idleThreadSize_, queVars, wkVars,
                   subPc, resVars, getVars, setValCalls, threw, logVars>>

\* lines 136-140, one iteration: threads_[i]->start(); idleThreadSize_++.
\* threads_[i] on a missing key inserts a null unique_ptr; Thread::start through
\* it reads func_ of a null object and the process terminates.
startThread ==
    /\ ~crashed
    /\ ownerPc = "starting"
    /\ IF startI \in DOMAIN threads_ /\ threads_[startI] = "Thread"
       THEN /\ wpc' = [wpc EXCEPT ![startI] = "ready"]
            /\ idleThreadSize_' = idleThreadSize_ + 1
            /\ startI' = startI + 1
            /\ ownerPc' = IF startI + 1 < initThreadSize_ THEN "starting" ELSE "started"
            /\ UNCHANGED <<crashed, threads_>>
       ELSE /\ threads_' = RegPut(threads_, startI, "nullptr")
            /\ crashed' = TRUE
            /\ UNCHANGED <<wpc, idleThreadSize_, startI, ownerPc>>
    /\ UNCHANGED <<cfgVars, initThreadSize_, curThreadSize_, queVars,
                   isPoolRunning_, generatedId_, wtask, expired, subPc, resVars,
                   getVars, setValCalls, threw, logVars>>

\* ---- ThreadPool::submitTask ----
\* variant of NotFullPred: the comparison admits one task too many
NotFullPredInclusive(que, threshold) == Len(que) <= threshold

\* predicate of notFull_.wait_for (line 78)
NotFullPred(que, threshold) == Len(que) < threshold

\* variant of ShouldSpawn: a worker is added with the threshold already reached
ShouldSpawnAtThreshold(mode, taskSize, idle, cur, threshold) ==
    mode = MODE_CACHED /\ taskSize > idle /\ cur <= threshold

\* variant of ShouldSpawn: the mode is not tested
ShouldSpawnAnyMode(mode, taskSize, idle, cur, threshold) ==
    taskSize > idle /\ cur < threshold

\* condition of the cached-mode growth (lines 94-96), evaluated after the enqueue
ShouldSpawn(mode, taskSize, idle, cur, threshold) ==
    mode = MODE_CACHED /\ taskSize > idle /\ cur < threshold

\* lines 86-114 under taskQueMtx_: enqueue, notify, maybe spawn, return Result(task)
Enqueue(t) ==
    /\ taskQue_' = Append(taskQue_, t)
    /\ taskSize_' = taskSize_ + 1
    /\ acceptOrder' = Append(acceptOrder, t)
    /\ IF ShouldSpawn(poolMode_, taskSize_ + 1, idleThreadSize_, curThreadSize_,
                      threadSizeThreshold_)
       THEN /\ threads_' = RegPut(threads_, generatedId_, "Thread")
            /\ generatedId_' = generatedId_ + 1
            /\ wpc' = [NotifyNotEmpty(wpc) EXCEPT ![generatedId_] = "ready"]
            /\ expired' = [expired EXCEPT ![generatedId_] = FALSE]
            /\ curThreadSize_' = curThreadSize_ + 1
            /\ idleThreadSize_' = idleThreadSize_ + 1
       ELSE /\ wpc' = NotifyNotEmpty(wpc)
            /\ UNCHANGED <<threads_, generatedId_, expired, curThreadSize_, idleThreadSize_>>
    /\ subPc' = [subPc EXCEPT ![t] = "accepted"]
    /\ handle' = [handle EXCEPT ![t] = "alive"]
    /\ isValid_' = [isValid_ EXCEPT ![t] = TRUE]
    /\ UNCHANGED <<ownerVars, crashed, cfgVars, initThreadSize_, isPoolRunning_, wtask,
                   resLimit_, any_, getVars, setValCalls, threw, dequeueOrder>>

\* submitTask is entered: the predicate holds at once, or the caller blocks on notFull_
submitCall(t) ==
    /\ ~crashed
    /\ ownerPc = "started"
    /\ subPc[t] = "new"
    /\ \A u \in Tasks : u < t => subPc[u] # "new"
    /\ IF NotFullPred(taskQue_, taskQueMaxThreshold_)
       THEN Enqueue(t)
       ELSE /\ subPc' = [subPc EXCEPT ![t] = "waiting"]
            /\ UNCHANGED <<ownerVars, crashed, cfgVars, cntVars, queVars, isPoolRunning_,
                           regVars, wkVars, resVars, getVars, setValCalls, threw, logVars>>

\* the blocked caller takes the mutex again (notified, spuriously or at the
\* time-out) and finds the predicate true
submitWake(t) ==
    /\ ~crashed
    /\ subPc[t] = "waiting"
    /\ NotFullPred(taskQue_, taskQueMaxThreshold_)
    /\ Enqueue(t)

\* variant of submitTimeout: the task is appended although the Result is invalid
submitTimeoutAppends(t) ==
    /\ ~crashed
    /\ subPc[t] = "waiting"
    /\ ~NotFullPred(taskQue_, taskQueMaxThreshold_)
    /\ subPc' = [subPc EXCEPT ![t] = "rejected"]
    /\ handle' = [handle EXCEPT ![t] = "alive"]
    /\ isValid_' = [isValid_ EXCEPT ![t] = FALSE]
    /\ taskQue_' = Append(taskQue_, t)
    /\ taskSize_' = taskSize_ + 1
    /\ UNCHANGED <<ownerVars, crashed, cfgVars, cntVars, isPoolRunning_, regVars,
                   wkVars, resLimit_, any_, getVars, setValCalls, threw, logVars>>

\* lines 79-83: the second has passed and the predicate is still false
submitTimeout(t) ==
    /\ ~crashed
    /\ subPc[t] = "waiting"
    /\ ~NotFullPred(taskQue_, taskQueMaxThreshold_)
    /\ subPc' = [subPc EXCEPT ![t] = "rejected"]
    /\ handle' = [handle EXCEPT ![t] = "alive"]
    /\ isValid_' = [isValid_ EXCEPT ![t] = FALSE]
    /\ UNCHANGED <<ownerVars, crashed, cfgVars, cntVars, queVars, isPoolRunning_, regVars,
                   wkVars, resLimit_, any_, getVars, setValCalls, threw, logVars>>

\* ---- ThreadPool::threadFunc ----
\* variant of RetireCond: a worker may retire when the count equals the initial one
RetireCondAtInit(idleReached, cur, init) == idleReached /\ cur >= init

\* condition of the idle retirement (lines 184-185)
RetireCond(idleReached, cur, init) == idleReached /\ cur > init

\* variant of QueFront: the newest task is taken
QueFrontBack(que) == que[Len(que)]

\* taskQue_.front() (line 227)
QueFront(que) == Head(que)

\* variant of Dequeue: the task taken stays at the front of the queue
DequeueLeavesFront(w) ==
    /\ idleThreadSize_' = idleThreadSize_ - 1
    /\ wtask' = [wtask EXCEPT ![w] = QueFront(taskQue_)]
    /\ dequeueOrder' = Append(dequeueOrder, QueFront(taskQue_))
    /\ wpc' = [NotifyNotEmpty(wpc) EXCEPT ![w] = "exec"]
    /\ UNCHANGED <<ownerVars, crashed, cfgVars, initThreadSize_, curThreadSize_,
                   isPoolRunning_, regVars, subPc, resVars, getVars,
                   setValCalls, threw, acceptOrder, queVars>>

\* lines 222-237: the worker takes the task at the front of the queue
Dequeue(w) ==
    /\ idleThreadSize_' = idleThreadSize_ - 1
    /\ wtask' = [wtask EXCEPT ![w] = QueFront(taskQue_)]
    /\ taskQue_' = Tail(taskQue_)
    /\ taskSize_' = taskSize_ - 1
    /\ dequeueOrder' = Append(dequeueOrder, QueFront(taskQue_))
    /\ wpc' = [(IF Len(taskQue_) > 1 THEN NotifyNotEmpty(wpc) ELSE wpc) EXCEPT ![w] = "exec"]
    /\ UNCHANGED <<ownerVars, crashed, cfgVars, initThreadSize_, curThreadSize_,
                   isPoolRunning_, regVars, subPc, resVars, getVars,
                   setValCalls, threw, acceptOrder>>

\* lines 168-174: the worker observes the shutdown with the queue empty
ExitOnShutdown(w) ==
    /\ threads_' = RegErase(threads_, w)
    /\ ownerPc' = IF ownerPc = "dtor_wait" THEN "dtor_woken" ELSE ownerPc
    /\ wpc' = [wpc EXCEPT ![w] = "exited"]
    /\ UNCHANGED <<startI, crashed, cfgVars, cntVars, queVars,
                   isPoolRunning_, generatedId_, wtask, subPc, resVars,
                   getVars, setValCalls, threw, logVars>>

\* variant of Retire: the worker leaves without decrementing curThreadSize_
RetireKeepsCount(w) ==
    /\ threads_' = RegErase(threads_, w)
    /\ idleThreadSize_' = idleThreadSize_ - 1
    /\ wpc' = [wpc EXCEPT ![w] = "retired"]
    /\ UNCHANGED <<ownerVars, crashed, cfgVars, initThreadSize_, curThreadSize_, queVars,
                   isPoolRunning_, generatedId_, wtask, subPc, resVars,
                   getVars, setValCalls, threw, logVars>>

\* lines 191-195: the worker retires for idleness
Retire(w) ==
    /\ threads_' = RegErase(threads_, w)
    /\ curThreadSize_' = curThreadSize_ - 1
    /\ idleThreadSize_' = idleThreadSize_ - 1
    /\ wpc' = [wpc EXCEPT ![w] = "retired"]
    /\ UNCHANGED <<ownerVars, crashed, cfgVars, initThreadSize_, queVars,
                   isPoolRunning_, generatedId_, wtask, subPc, resVars,
                   getVars, setValCalls, threw, logVars>>

\* the worker blocks on notEmpty_ (wait_for in cached mode, wait in fixed mode)
WaitNotEmpty(w) ==
    /\ wpc' = [wpc EXCEPT ![w] = "wait"]
    /\ UNCHANGED <<ownerVars, crashed, cfgVars, cntVars, queVars, isPoolRunning_,
                   regVars, wtask, subPc, resVars, getVars, setValCalls, threw, logVars>>

\* variant of LoopBody: the running flag is tested before the queue, so that a
\* worker leaves on shutdown with tasks still queued
LoopBodyFlagFirst(w) ==
    IF ~isPoolRunning_
    THEN ExitOnShutdown(w)
    ELSE IF Len(taskQue_) # 0
         THEN Dequeue(w)
         ELSE WaitNotEmpty(w)

\* one evaluation of the loop of lines 165-203 followed by lines 222-237, with
\* taskQueMtx_ held from the test of the queue to the wait or the end of the
\* block (Dequeue, ExitOnShutdown, Retire and WaitNotEmpty leave expired to
\* the action that uses them)
LoopBody(w) ==
    IF Len(taskQue_) # 0
    THEN Dequeue(w)
    ELSE IF ~isPoolRunning_
         THEN ExitOnShutdown(w)
         ELSE WaitNotEmpty(w)

\* the worker takes taskQueMtx_ at the top of for(;;), or again after a wait
\* that returned without time-out
workerLoop(w) ==
    /\ ~crashed
    /\ wpc[w] = "ready"
    /\ LoopBody(w)
    /\ UNCHANGED expired

\* notEmpty_.wait_for of line 180 reaches its time-out; the worker has still to
\* take taskQueMtx_ again
waitTimeout(w) ==
    /\ ~crashed
    /\ wpc[w] = "wait"
    /\ poolMode_ = MODE_CACHED
    /\ wpc' = [wpc EXCEPT ![w] = "timedout"]
    /\ UNCHANGED <<ownerVars, crashed, cfgVars, cntVars, queVars, isPoolRunning_,
                   regVars, wtask, expired, subPc, resVars, getVars, setValCalls, threw, logVars>>

\* a wait on notEmpty_ returns spuriously
waitSpurious(w) ==
    /\ ~crashed
    /\ wpc[w] = "wait"
    /\ wpc' = [wpc EXCEPT ![w] = "ready"]
    /\ UNCHANGED <<ownerVars, crashed, cfgVars, cntVars, queVars, isPoolRunning_,
                   regVars, wtask, expired, subPc, resVars, getVars, setValCalls, threw, logVars>>

\* lines 179-197 after a time-out: dur is computed (d: dur >= THREAD_MAX_IDLE_TIME,
\* which stays true once it was true until lastTime is set again); the worker
\* retires or goes on with the loop
workerTimedOut(w) ==
    /\ ~crashed
    /\ wpc[w] = "timedout"
    /\ \E d \in BOOLEAN :
         /\ expired[w] => d
         /\ expired' = [expired EXCEPT ![w] = d]
         /\ IF RetireCond(d, curThreadSize_, initThreadSize_)
            THEN Retire(w)
            ELSE LoopBody(w)

\* ---- Task::exec, Result::setVal ----
\* lines 241-251: task->exec() (run(), then setVal through the back-reference
\* result_, lines 297-302 and 318-324), then idleThreadSize_++ and lastTime = now.
\* With the Result destroyed the back-reference dangles: the write goes to dead
\* storage, and the process either goes on or terminates.
workerExec(w) ==
    /\ ~crashed
    /\ wpc[w] = "exec"
    /\ LET t == wtask[w] IN
         /\ setValCalls' = [setValCalls EXCEPT ![t] = @ + 1]
         /\ IF handle[t] = "alive"
            THEN /\ any_' = [any_ EXCEPT ![t] = RunVal(t)]
                 /\ resLimit_' = [resLimit_ EXCEPT ![t] = @ + 1]
                 /\ UNCHANGED crashed
            ELSE /\ crashed' \in BOOLEAN
                 /\ UNCHANGED <<any_, resLimit_>>
    /\ idleThreadSize_' = idleThreadSize_ + 1
    /\ expired' = [expired EXCEPT ![w] = FALSE]
    /\ wtask' = [wtask EXCEPT ![w] = 0]
    /\ wpc' = [wpc EXCEPT ![w] = "ready"]
    /\ UNCHANGED <<ownerVars, cfgVars, initThreadSize_, curThreadSize_, queVars,
                   isPoolRunning_, regVars, subPc, handle, isValid_, getVars, threw, logVars>>

\* lines 241-244 with run() throwing: Task::exec evaluates run() before setVal
\* is called, neither Task::exec nor threadFunc has a handler, the exception
\* leaves the thread function and std::terminate ends the process
workerExecThrows(w) ==
    /\ ~crashed
    /\ wpc[w] = "exec"
    /\ threw' = [threw EXCEPT ![wtask[w]] = TRUE]
    /\ crashed' = TRUE
    /\ UNCHANGED <<ownerVars, cfgVars, cntVars, queVars, isPoolRunning_, regVars,
                   wkVars, subPc, resVars, getVars, setValCalls, logVars>>

\* ---- Result::get, Semaphore, ~Result ----
\* Semaphore::acquire_ succeeds and get returns std::move(any_)
TakeValue(t) ==
    /\ resLimit_' = [resLimit_ EXCEPT ![t] = @ - 1]
    /\ got' = [got EXCEPT ![t] = any_[t]]
    /\ any_' = [any_ EXCEPT ![t] = EmptyAny]

\* the client has used the Result of task u
Observed(u) == getCalls[u] > 0 \/ handle[u] = "dropped"

\* the client may use the Result of task t
CanObserve(t) == Cardinality({u \in Tasks \ {t} : Observed(u)}) < MaxObserved

\* variant of GetEntry: isValid_ is not tested
GetEntryIgnoresValid(valid, res) == IF res > 0 THEN 1 ELSE 2

\* what get does on entry: 0 = return "" at once, 1 = take the value, 2 = block
GetEntry(valid, res) == IF ~valid THEN 0 ELSE IF res > 0 THEN 1 ELSE 2

getCall(t) ==
    /\ ~crashed
    /\ handle[t] = "alive"
    /\ getPc[t] = "idle"
    /\ getCalls[t] < MaxGets
    /\ CanObserve(t)
    /\ getCalls' = [getCalls EXCEPT ![t] = @ + 1]
    /\ LET e == GetEntry(isValid_[t], resLimit_[t]) IN
         /\ e = 0 => /\ got' = [got EXCEPT ![t] = StrAny]
                     /\ UNCHANGED <<getPc, resLimit_, any_>>
         /\ e = 1 => TakeValue(t) /\ UNCHANGED getPc
         /\ e = 2 => /\ getPc' = [getPc EXCEPT ![t] = "blocked"]
                     /\ UNCHANGED <<got, resLimit_, any_>>
    /\ UNCHANGED <<ownerVars, crashed, cfgVars, cntVars, queVars, isPoolRunning_, regVars,
                   wkVars, subPc, handle, isValid_, setValCalls, threw, logVars>>

\* a get blocked in Semaphore::acquire_ finds resLimit_ > 0
getWake(t) ==
    /\ ~crashed
    /\ getPc[t] = "blocked"
    /\ resLimit_[t] > 0
    /\ TakeValue(t)
    /\ getPc' = [getPc EXCEPT ![t] = "idle"]
    /\ UNCHANGED <<ownerVars, crashed, cfgVars, cntVars, queVars, isPoolRunning_, regVars,
                   wkVars, subPc, handle, isValid_, getCalls, setValCalls, threw, logVars>>

\* the submitter lets the Result go out of scope (a discarded return value of
\* submitTask is destroyed at the end of the full expression)
dropResult(t) ==
    /\ ~crashed
    /\ handle[t] = "alive"
    /\ getPc[t] = "idle"
    /\ isValid_[t] /\ setValCalls[t] = 0
    /\ CanObserve(t)
    /\ handle' = [handle EXCEPT ![t] = "dropped"]
    /\ UNCHANGED <<ownerVars, crashed, cfgVars, cntVars, queVars, isPoolRunning_, regVars,
                   wkVars, subPc, isValid_, resLimit_, any_, getVars, setValCalls, threw, logVars>>

\* ---- ThreadPool::~ThreadPool ----
\* line 28, outside the mutex
dtorBegin ==
    /\ ~crashed
    /\ ownerPc = "started"
    /\ \A t \in Tasks : subPc[t] # "waiting"
    /\ isPoolRunning_' = FALSE
    /\ ownerPc' = "dtor_lock"
    /\ UNCHANGED <<startI, crashed, cfgVars, cntVars, queVars, regVars,
                   wkVars, subPc, resVars, getVars, setValCalls, threw, logVars>>

\* predicate of exitCond_.wait (line 43)
RegistryDrained(reg) == DOMAIN reg = {}

\* lines 41-43: lock, notify_all on notEmpty_, first test of the predicate
dtorLock ==
    /\ ~crashed
    /\ ownerPc = "dtor_lock"
    /\ wpc' = NotifyNotEmpty(wpc)
    /\ ownerPc' = IF RegistryDrained(threads_) THEN "destroyed" ELSE "dtor_wait"
    /\ UNCHANGED <<startI, crashed, cfgVars, cntVars, queVars,
                   isPoolRunning_, regVars, wtask, expired, subPc, resVars, getVars,
                   setValCalls, threw, logVars>>

\* line 43: notified on exitCond_, the destructor tests the predicate again
dtorRecheck ==
    /\ ~crashed
    /\ ownerPc = "dtor_woken"
    /\ ownerPc' = IF RegistryDrained(threads_) THEN "destroyed" ELSE "dtor_wait"
    /\ UNCHANGED <<startI, crashed, cfgVars, cntVars, queVars,
                   isPoolRunning_, regVars, wkVars, subPc, resVars, getVars,
                   setValCalls, threw, logVars>>

\* ---- specifications ----
Next ==
    \/ \E m \in PoolMode : setMode(m)
    \/ \E n \in 1..MaxCap : setTaskQueMaxThreshold(n)
    \/ \E n \in 1..MaxThr : setThreadSizeThreshold(n)
    \/ \E n \in 1..MaxInit : startBegin(n)
    \/ startThread
    \/ \E t \in Tasks : submitCall(t)
    \/ \E t \in Tasks : submitWake(t)
    \/ \E t \in Tasks : submitTimeout(t)
    \/ \E w \in Ids : workerLoop(w)
    \/ \E w \in Ids : waitTimeout(w)
    \/ \E w \in Ids : waitSpurious(w)
    \/ \E w \in Ids : workerTimedOut(w)
    \/ \E w \in Ids : workerExec(w)
    \/ \E w \in Ids : workerExecThrows(w)
    \/ \E t \in Tasks : getCall(t)
    \/ \E t \in Tasks : getWake(t)
    \/ \E t \in Tasks : dropResult(t)
    \/ dtorBegin
    \/ dtorLock
    \/ dtorRecheck

Spec == Init /\ [][Next]_vars

\* ---- the cached pool left alone ----
\* The pool after ThreadPool() and setMode(MODE_CACHED), in a process that has
\* created no Thread before.
InitCached ==
    /\ ownerPc = "config"
    /\ startI = 0
    /\ crashed = FALSE
    /\ poolMode_ = MODE_CACHED
    /\ taskQueMaxThreshold_ = TASK_MAX_THRESHOLD
    /\ threadSizeThreshold_ = THREAD_MAX_THRESHOLD
    /\ initThreadSize_ = 4
    /\ curThreadSize_ = 0
    /\ idleThreadSize_ = 0
    /\ taskSize_ = 0
    /\ isPoolRunning_ = FALSE
    /\ taskQue_ = <<>>
    /\ threads_ = <<>>
    /\ generatedId_ = 0
    /\ wpc = [w \in Ids |-> "none"]
    /\ wtask = [w \in Ids |-> 0]
    /\ expired = [w \in Ids |-> FALSE]
    /\ subPc = [t \in Tasks |-> "new"]
    /\ handle = [t \in Tasks |-> "none"]
    /\ isValid_ = [t \in Tasks |-> FALSE]
    /\ resLimit_ = [t \in Tasks |-> 0]
    /\ any_ = [t \in Tasks |-> EmptyAny]
    /\ getPc = [t \in Tasks |-> "idle"]
    /\ getCalls = [t \in Tasks |-> 0]
    /\ got = [t \in Tasks |-> EmptyAny]
    /\ setValCalls = [t \in Tasks |-> 0]
    /\ threw = [t \in Tasks |-> FALSE]
    /\ acceptOrder = <<>>
    /\ dequeueOrder = <<>>

\* start, submissions whose Results are kept and whose run() returns, and the
\* workers; the pool is not destroyed
NextCached ==
    \/ \E n \in 1..MaxInit : startBegin(n)
    \/ startThread
    \/ \E t \in Tasks : submitCall(t)
    \/ \E w \in Ids : workerLoop(w)
    \/ \E w \in Ids : waitTimeout(w)
    \/ \E w \in Ids : waitSpurious(w)
    \/ \E w \in Ids : workerTimedOut(w)
    \/ \E w \in Ids : workerExec(w)

\* Scheduling: a worker that can take the mutex or finish its task does so; a
\* wait_for that is started again and again reaches its time-out; the clock
\* advances, so that a worker that stays idle finds dur >= THREAD_MAX_IDLE_TIME
\* at one of its time-outs.
WorkerFairness ==
    \A w \in Ids :
        /\ WF_vars(workerLoop(w))
        /\ WF_vars(workerExec(w))
        /\ SF_vars(waitTimeout(w))
        /\ SF_vars(workerTimedOut(w) /\ expired'[w])

SpecCached == InitCached /\ [][NextCached]_vars /\ WorkerFairness

\* no task is queued or being executed
AllIdle == taskQue_ = <<>> /\ \A w \in Ids : wpc[w] # "exec"

\* the pool has its initial number of workers again
Shrunk ==
    /\ curThreadSize_ = initThreadSize_
    /\ Cardinality(DOMAIN threads_) = initThreadSize_

TypeOK ==
    /\ ownerPc \in {"config", "starting", "started", "dtor_lock", "dtor_wait",
                    "dtor_woken", "destroyed"}
    /\ crashed \in BOOLEAN
    /\ poolMode_ \in PoolMode
    /\ taskSize_ \in Nat
    /\ idleThreadSize_ \in Int
    /\ curThreadSize_ \in Nat
    /\ wpc \in [Ids -> {"none", "ready", "wait", "timedout", "exec",
                        "exited", "retired"}]
    /\ subPc \in [Tasks -> {"new", "waiting", "accepted", "rejected"}]
    /\ handle \in [Tasks -> {"none", "alive", "dropped"}]

\* steps of the threads of the program itself (workers, blocked callers, start
\* and the destructor), as opposed to new calls made by the client
Progress ==
    \/ startThread
    \/ \E t \in Tasks : submitWake(t) \/ submitTimeout(t) \/ getWake(t)
    \/ \E w \in Ids : workerLoop(w) \/ waitTimeout(w) \/ workerTimedOut(w) \/ workerExec(w)
    \/ dtorLock
    \/ dtorRecheck

\* no thread of the program can take a step any more
AtRest == ~ENABLED Progress

\* s is a prefix of t
IsPrefix(s, t) == Len(s) <= Len(t) /\ \A i \in 1..Len(s) : s[i] = t[i]

\* task t is in the queue or held by a worker
Pending(t) == (\E i \in 1..Len(taskQue_) : taskQue_[i] = t) \/ (\E w \in Ids : wtask[w] = t)

\* ---- claims ----

\* C1: every task accepted by submitTask is published by exactly one call of
\* setVal, and a get on its Result returns the value run() produced.  Stated on
\* finite runs: setVal is never called twice for a task, a get that returned on
\* a valid Result returned the value of run(), and the program never comes to
\* rest with an accepted task unpublished or a get still blocked.
C1_AcceptedPublishedOnceAndDelivered ==
    /\ \A t \in Tasks : setValCalls[t] <= 1
    /\ \A t \in Tasks :
         (isValid_[t] /\ getCalls[t] > 0 /\ getPc[t] = "idle") => got[t] = RunVal(t)
    /\ AtRest => \A t \in Tasks :
         subPc[t] = "accepted" => (setValCalls[t] = 1 /\ getPc[t] # "blocked")

\* C2: once the destructor has begun it returns; on finite runs: the destructor
\* is never left blocked on exitCond_, un-notified, with the registry empty.
C2_DtorNotLeftWaiting ==
    ~(ownerPc = "dtor_wait" /\ RegistryDrained(threads_))

\* C3: when the destructor has returned the registry is empty and every accepted
\* task has been executed and published; a worker leaves through the shutdown
\* path only with the queue empty.
C3_ShutdownDrains ==
    /\ [](ownerPc = "destroyed" =>
            /\ RegistryDrained(threads_)
            /\ taskQue_ = <<>>
            /\ \A t \in Tasks : subPc[t] = "accepted" => setValCalls[t] = 1)
    /\ [][\A w \in Ids : (wpc[w] # "exited" /\ wpc'[w] = "exited") =>
             (taskQue_ = <<>> /\ ~isPoolRunning_)]_vars

C3_Witness ==
    /\ ownerPc = "destroyed"
    /\ \A t \in Tasks : subPc[t] = "accepted" /\ setValCalls[t] = 1
    /\ \E w \in Ids : wpc[w] = "exited"

\* C4: whenever Task::exec calls setVal for a task, the Result bound to the task
\* still exists.
C4_ResultAliveAtPublish ==
    [][\A t \in Tasks : setValCalls'[t] > setValCalls[t] => handle[t] = "alive"]_vars

\* C5: the queue never holds more than taskQueMaxThreshold_ tasks and taskSize_
\* equals its length.
C5_QueueBounded ==
    /\ 0 <= Len(taskQue_)
    /\ Len(taskQue_) <= taskQueMaxThreshold_
    /\ taskSize_ = Len(taskQue_)

C5_Witness ==
    /\ Len(taskQue_) = taskQueMaxThreshold_
    /\ \E t \in Tasks : subPc[t] = "waiting"
    /\ dequeueOrder # <<>>

\* C6: tasks are dequeued in the order in which they were accepted.
C6_Fifo == IsPrefix(dequeueOrder, acceptOrder)

C6_Witness ==
    /\ Len(dequeueOrder) >= 3
    /\ dequeueOrder[2] > dequeueOrder[3]
    /\ Cardinality({w \in Ids : wpc[w] \in {"ready", "wait", "exec"}}) >= 2

\* C7: a submitTask that times out on the full queue returns an invalid Result
\* and leaves queue, counters and registry as they were; the task never runs.
C7_RejectLeavesPoolUnchanged ==
    /\ [][\A t \in Tasks : (subPc[t] # "rejected" /\ subPc'[t] = "rejected") =>
             /\ ~NotFullPred(taskQue_, taskQueMaxThreshold_)
             /\ ~isValid_'[t]
             /\ UNCHANGED <<queVars, regVars, cntVars, wkVars>>]_vars
    /\ [](\A t \in Tasks : subPc[t] = "rejected" =>
             (~isValid_[t] /\ setValCalls[t] = 0 /\ ~Pending(t)))

C7_Witness ==
    \E t \in Tasks : subPc[t] = "rejected" /\ ownerPc = "destroyed"

\* C8: get on a Result created with valid = false returns at once, without
\* blocking, and setVal is never called for it.
C8_InvalidGetNeverBlocks ==
    \A t \in Tasks : (handle[t] # "none" /\ ~isValid_[t]) =>
        /\ getPc[t] # "blocked"
        /\ setValCalls[t] = 0
        /\ resLimit_[t] = 0
        /\ getCalls[t] > 0 => got[t] = StrAny

C8_Witness ==
    \E t \in Tasks : subPc[t] = "rejected" /\ getCalls[t] > 0 /\ taskQue_ # <<>>

\* C9: in cached mode curThreadSize_ never exceeds threadSizeThreshold_.
C9_CurBelowThreshold ==
    poolMode_ = MODE_CACHED => curThreadSize_ <= threadSizeThreshold_

\* C10: in cached mode, while the pool is running, curThreadSize_ never falls
\* below initThreadSize_.
C10_CurAtLeastInit ==
    (poolMode_ = MODE_CACHED /\ isPoolRunning_) => curThreadSize_ >= initThreadSize_

C10_Witness ==
    /\ isPoolRunning_
    /\ curThreadSize_ = initThreadSize_
    /\ \E w \in Ids : wpc[w] = "retired"
    /\ \E w \in Ids : wpc[w] = "timedout" /\ expired[w]

\* C11: at every point after start at which no thread is inside a critical
\* section of taskQueMtx_ (every state of this model, each critical section being
\* one step), threads_.size() equals curThreadSize_ and
\* 0 <= idleThreadSize_ <= curThreadSize_.
C11_RegistryMatchesCounters ==
    ownerPc \notin {"config", "starting"} =>
        /\ Cardinality(DOMAIN threads_) = curThreadSize_
        /\ 0 <= idleThreadSize_
        /\ idleThreadSize_ <= curThreadSize_

\* C12: when run() of a task throws, the worker catches the failure, publishes a
\* value to the Result of the task (get returns), stays in the registry and
\* goes on: the process is not terminated and setVal is called for the task.
C12_ThrowCaught ==
    \A t \in Tasks : threw[t] => (~crashed /\ setValCalls[t] = 1)

\* C13: once setVal has published, every call of get on the valid Result, the
\* first and each later one, returns: a get is never blocked in the semaphore of
\* a published Result without a resource to take.
C13_GetReturnsAfterPublish ==
    \A t \in Tasks :
        (handle[t] = "alive" /\ isValid_[t] /\ setValCalls[t] >= 1 /\ getPc[t] = "blocked")
            => resLimit_[t] > 0

\* C14: start(n) does not end the process, and once it has returned, with no
\* task submitted yet, threads_ holds exactly n workers, each of them started
\* and running its loop, curThreadSize_ = n and idleThreadSize_ = n, whatever
\* value the process-wide id counter had when start was called.
C14_StartRegistersAndRuns ==
    /\ ownerPc = "starting" => ~crashed
    /\ (ownerPc = "started" /\ \A t \in Tasks : subPc[t] = "new") =>
          /\ Cardinality(DOMAIN threads_) = initThreadSize_
          /\ \A k \in DOMAIN threads_ :
                threads_[k] = "Thread" /\ wpc[k] \in {"ready", "wait", "timedout"}
          /\ curThreadSize_ = initThreadSize_
          /\ idleThreadSize_ = initThreadSize_

\* C15: while the pool is running no step changes poolMode_,
\* taskQueMaxThreshold_ or threadSizeThreshold_ (the setters return at once);
\* before start setMode and setTaskQueMaxThreshold store their argument, and
\* setThreadSizeThreshold stores it when the mode is MODE_CACHED.
C15_SettersOnlyBeforeStart ==
    /\ [][isPoolRunning_ => UNCHANGED cfgVars]_vars
    /\ [][\A m \in PoolMode : (~isPoolRunning_ /\ setMode(m)) => poolMode_' = m]_vars
    /\ [][\A n \in 1..MaxCap :
            (~isPoolRunning_ /\ setTaskQueMaxThreshold(n)) => taskQueMaxThreshold_' = n]_vars
    /\ [][\A n \in 1..MaxThr :
            (~isPoolRunning_ /\ setThreadSizeThreshold(n)) =>
                threadSizeThreshold_' =
                    (IF poolMode_ = MODE_CACHED THEN n ELSE threadSizeThreshold_)]_vars

C15_Witness ==
    /\ ownerPc = "started"
    /\ isPoolRunning_
    /\ poolMode_ = MODE_CACHED
    /\ taskQueMaxThreshold_ = MaxCap
    /\ threadSizeThreshold_ = MaxThr
    /\ \E t \in Tasks : subPc[t] = "accepted"

\* C16: in MODE_FIXED, from the return of start until the destructor begins, no
\* step adds a worker to threads_ or removes one: the registry, the id counter
\* and curThreadSize_ do not change and the pool has initThreadSize_ workers.
C16_FixedModeConstantWorkers ==
    /\ [][(poolMode_ = MODE_FIXED /\ ownerPc = "started") =>
             UNCHANGED <<threads_, generatedId_, curThreadSize_>>]_vars
    /\ []((poolMode_ = MODE_FIXED /\ ownerPc = "started") =>
             /\ Cardinality(DOMAIN threads_) = initThreadSize_
             /\ curThreadSize_ = initThreadSize_)

C16_Witness ==
    /\ poolMode_ = MODE_FIXED
    /\ ownerPc = "started"
    /\ Len(taskQue_) >= 2
    /\ taskSize_ > idleThreadSize_
    /\ curThreadSize_ < threadSizeThreshold_
    /\ \A w \in DOMAIN threads_ : wpc[w] = "exec"

\* C17: in MODE_CACHED, when the pool has grown above initThreadSize_ and all
\* tasks have finished, then, unless a further task is accepted, the number of
\* workers eventually is initThreadSize_ again, threads_.size() with it; and
\* from then on it stays there as long as no task is accepted.
C17_ShrinksBackToInit ==
    /\ \A k \in 0..NTasks :
          (ownerPc = "started" /\ AllIdle /\ curThreadSize_ > initThreadSize_
              /\ Len(acceptOrder) = k)
          ~> (Shrunk \/ Len(acceptOrder) > k)
    /\ [][(ownerPc = "started" /\ Shrunk /\ acceptOrder' = acceptOrder) => Shrunk']_vars

C17_Witness ==
    /\ poolMode_ = MODE_CACHED
    /\ ownerPc = "started"
    /\ AllIdle
    /\ Shrunk
    /\ Cardinality({w \in Ids : wpc[w] = "retired"}) >= 2
    /\ \A t \in Tasks : setValCalls[t] = 1

\* C18: every queued task is claimed by one worker only: no task is dequeued
\* twice, no two workers hold the same task, no task is executed twice; and
\* while the queue is empty no worker starts executing: a worker that takes the
\* mutex and finds the queue empty of a running pool waits again.
C18_TaskClaimedOnce ==
    /\ [](/\ \A i, j \in 1..Len(dequeueOrder) : i # j => dequeueOrder[i] # dequeueOrder[j]
          /\ \A v, w \in Ids : (v # w /\ wtask[v] # 0) => wtask[v] # wtask[w]
          /\ \A t \in Tasks : setValCalls[t] <= 1
          /\ \A w \in Ids : wtask[w] # 0 => setValCalls[wtask[w]] = 0)
    /\ [][taskQue_ = <<>> =>
            /\ dequeueOrder' = dequeueOrder
            /\ \A w \in Ids : wpc'[w] = "exec" => wpc[w] = "exec"]_vars
    /\ [][\A w \in Ids : (taskQue_ = <<>> /\ isPoolRunning_ /\ workerLoop(w))
                            => wpc'[w] = "wait"]_vars

C18_Witness ==
    /\ taskQue_ = <<>>
    /\ Len(dequeueOrder) >= 2
    /\ \E v, w \in Ids : v # w /\ wpc[v] = "exec" /\ wpc[w] = "wait" /\ wtask[v] = 2
    /\ setValCalls[1] = 1

\* C19: the step of submitTask that accepts a task adds exactly one worker
\* (registered in threads_ under a new id, started, curThreadSize_ and
\* idleThreadSize_ incremented) if and only if, after the enqueue, the mode is
\* MODE_CACHED, taskSize_ > idleThreadSize_ and
\* curThreadSize_ < threadSizeThreshold_; otherwise it adds none and leaves
\* both counters unchanged.
C19_SpawnIffBacklog ==
    [][\A t \in Tasks : (subPc[t] # "accepted" /\ subPc'[t] = "accepted") =>
          IF /\ poolMode_ = MODE_CACHED
             /\ taskSize_' > idleThreadSize_
             /\ curThreadSize_ < threadSizeThreshold_
          THEN /\ generatedId_ \notin DOMAIN threads_
               /\ DOMAIN threads_' = DOMAIN threads_ \cup {generatedId_}
               /\ threads_'[generatedId_] = "Thread"
               /\ wpc'[generatedId_] = "ready"
               /\ curThreadSize_' = curThreadSize_ + 1
               /\ idleThreadSize_' = idleThreadSize_ + 1
          ELSE UNCHANGED <<threads_, curThreadSize_, idleThreadSize_>>]_vars

C19_Witness ==
    /\ poolMode_ = MODE_CACHED
    /\ Len(acceptOrder) = 2
    /\ curThreadSize_ = initThreadSize_ + 1
    /\ Cardinality(DOMAIN threads_) = curThreadSize_
    /\ curThreadSize_ <= threadSizeThreshold_

\* C20: every step in which a worker erases itself from threads_ notifies
\* exitCond_: a destructor blocked on exitCond_ is woken by every removal, on
\* the shutdown path and on the idle-retirement path.
C20_EraseNotifiesExitCond ==
    [][(ownerPc = "dtor_wait" /\ DOMAIN threads_' # DOMAIN threads_)
          => ownerPc' = "dtor_woken"]_vars

\* C21: a worker retires for idleness only with the task queue empty: in every
\* step in which a worker erases itself on the idle-timeout path,
\* taskQue_.size() is 0.
C21_RetireOnlyWithEmptyQueue ==
    [][\A w \in Ids : (wpc[w] # "retired" /\ wpc'[w] = "retired") => taskQue_ = <<>>]_vars

====
